---- MODULE Spec2Model ----
(***************************************************************************)
(* Model of app/lib/github.ts: fetchGitHubContributions (the Fetcher),     *)
(* aggregateContributions (the Aggregator) and getRecentContributions      *)
(* (the Window Selector).                                                   *)
(*                                                                         *)
(* JavaScript values are tagged records, so that null, undefined, NaN,     *)
(* numbers, strings and objects stay distinct values, as they are in the   *)
(* program.  An async function runs without interruption up to its next    *)
(* await; each action below is one such run.                               *)
(***************************************************************************)
EXTENDS Integers, Sequences, FiniteSets

VARIABLES
    envPersonal,   \* process.env.GITHUB_TOKEN_PERSONAL
    envGeneric,    \* process.env.GITHUB_TOKEN
    inv,           \* the invocations of fetchGitHubContributions, in call order
    wire,          \* the requests handed to fetch(), in the order issued
    accounts,      \* the argument of aggregateContributions
    aggPc,         \* where aggregateContributions is: idle, awaiting, resolved
    aggResult,     \* what aggregateContributions returned
    winPc,         \* where getRecentContributions is: idle, returned
    winCalendar,   \* its calendar argument
    winDays,       \* its days argument (Undef: not passed)
    winResult,     \* what it returned
    calls,         \* how many times aggregateContributions was called
    prevResult,    \* what the call before the current one returned
    remote,        \* what the remote source has answered, by request
    renderPc,      \* where GitHubContributions is: idle, aggregating,
                   \* fetchingPrimary, errorPanel, grid, threw
    renderDays,    \* its days prop (Undef: not passed)
    view,          \* what the rendered grid shows
    order          \* observer: the invocations in the order they settled

vars == <<envPersonal, envGeneric, inv, wire, accounts, aggPc, aggResult,
          winPc, winCalendar, winDays, winResult, calls, prevResult, remote,
          renderPc, renderDays, view, order>>

fetchVars == <<envPersonal, envGeneric, inv, wire>>
aggVars == <<accounts, aggPc, aggResult>>
winVars == <<winPc, winCalendar, winDays, winResult>>
idemVars == <<prevResult, remote>>
renderVars == <<renderPc, renderDays, view>>

---------------------------------------------------------------------------
(* Bounds of the model *)

MaxAccounts == 2
MaxWeeks == 3

---------------------------------------------------------------------------
(* JavaScript values *)

Undef == [t |-> "undefined"]
Null == [t |-> "null"]
NaN == [t |-> "NaN"]
Num(n) == [t |-> "number", v |-> n]
Str(s) == [t |-> "string", v |-> s]

\* ToBoolean: objects are truthy; 0, NaN, "", null and undefined are falsy.
Truthy(x) ==
    \/ x.t = "object"
    \/ x.t = "number" /\ x.v # 0
    \/ x.t = "string" /\ x.v # ""

\* a || b
JsOr(a, b) == IF Truthy(a) THEN a ELSE b

\* a + b on what the model adds: numbers, with undefined and NaN giving NaN.
JsAdd(a, b) ==
    IF a.t = "number" /\ b.t = "number" THEN Num(a.v + b.v) ELSE NaN

IsInteger(x) == x.t = "number"

---------------------------------------------------------------------------
(* Inputs *)

Usernames == {"A", "B"}

\* The token argument: not passed, an empty string, or a token.
TokenArgs == {Undef, Str(""), Str("tok_arg")}
PersonalEnvs == {Undef, Str(""), Str("tok_personal")}
GenericEnvs == {Undef, Str(""), Str("tok_generic")}

\* A ContributionDay is represented by its date, the days of a calendar being
\* numbered 1, 2, ... in chronological order.
DaysPerWeek == 7

\* The weeks whose lengths are lens, the days numbered on from `from`.
RECURSIVE MkWeeks(_, _)
MkWeeks(lens, from) ==
    IF lens = <<>> THEN <<>>
    ELSE <<[contributionDays |-> [d \in 1..Head(lens) |-> from + d - 1]]>>
         \o MkWeeks(Tail(lens), from + Head(lens))

Calendar(total, lens) ==
    [t |-> "object", totalContributions |-> total, weeks |-> MkWeeks(lens, 1)]

WeekShapes ==
    UNION {[1..w -> 1..DaysPerWeek] : w \in 0..MaxWeeks}

\* What the remote source puts at contributionCalendar: a calendar with a
\* total, an object that has no totalContributions (read as undefined), or
\* an object that has no weeks.
RemoteCalendars ==
    {Calendar(tot, <<2, 1>>) : tot \in {Num(0), Num(5), Num(120), Undef}}
    \cup {[t |-> "object", totalContributions |-> Num(5)]}

\* What fetch() settles with: a rejection (network fault) or a response.
Responses ==
    {[kind |-> "reject", ok |-> FALSE, status |-> 0],
     [kind |-> "response", ok |-> TRUE, status |-> 200],
     [kind |-> "response", ok |-> FALSE, status |-> 401]}

\* The body of a response, by how far the path
\* data.user.contributionsCollection.contributionCalendar exists in it:
\*   unparsable    not JSON
\*   jsonNull      the JSON value null
\*   noData        an object without data
\*   noUser        data without user (or user: null)
\*   noCollection  user without contributionsCollection
\*   noCalendar    contributionsCollection without contributionCalendar
\*   calendar      the whole path, ending at the value `calendar`
BrokenShapes ==
    {"unparsable", "jsonNull", "noData", "noUser", "noCollection", "noCalendar"}

\* Before fetch() and response.json() have settled.
NoResponse == [kind |-> "none", ok |-> FALSE, status |-> 0]
NoPayload == [shape |-> "none", calendar |-> Undef]

Payloads ==
    {[shape |-> s, calendar |-> Undef] : s \in BrokenShapes}
    \cup {[shape |-> "calendar", calendar |-> c] : c \in RemoteCalendars}

---------------------------------------------------------------------------
(* fetchGitHubContributions *)

\* A resolution that prefers the personal token to the argument (not the
\* program's: the order C4 is checked against).
ResolveTokenSkipArg(token, personal, generic) ==
    JsOr(JsOr(personal, token), generic)

\* const githubToken = token || GITHUB_TOKEN_PERSONAL || GITHUB_TOKEN
ResolveToken(token, personal, generic) ==
    JsOr(JsOr(token, personal), generic)

\* ${x} in a template literal, for the strings, null and undefined.
JsToString(x) == IF x.t = "string" THEN x.v ELSE x.t

\* `Bearer ${githubToken}`
Bearer(githubToken) == Str("Bearer " \o JsToString(githubToken))

\* The request of one invocation, as handed to fetch().
Request(username, githubToken) ==
    [username |-> username, authorization |-> Bearer(githubToken)]

\* A beginning that lacks the early return and calls fetch() without a token
\* (not the program's: what C2 rules out).
BeginFetchAnyway(username, token) ==
    LET githubToken == ResolveToken(token, envPersonal, envGeneric) IN
    [username |-> username, token |-> token, githubToken |-> githubToken,
     pc |-> "awaitFetch", value |-> Undef, requests |-> 1,
     log |-> "none", cause |-> "none",
     response |-> NoResponse, payload |-> NoPayload]

\* An invocation up to its first await: without a token it warns and returns
\* null; with one it calls fetch() and waits for the response.
Begin(username, token) ==
    LET githubToken == ResolveToken(token, envPersonal, envGeneric) IN
    IF ~Truthy(githubToken)
    THEN [username |-> username, token |-> token, githubToken |-> githubToken,
          pc |-> "fulfilled", value |-> Null, requests |-> 0,
          log |-> "warn", cause |-> "no-token",
          response |-> NoResponse, payload |-> NoPayload]
    ELSE [username |-> username, token |-> token, githubToken |-> githubToken,
          pc |-> "awaitFetch", value |-> Undef, requests |-> 1,
          log |-> "none", cause |-> "none",
          response |-> NoResponse, payload |-> NoPayload]

\* The requests an invocation that has begun put on the wire.
Issued(iv) ==
    IF iv.requests = 0 THEN <<>> ELSE <<Request(iv.username, iv.githubToken)>>

\* Handlers that log and rethrow, or try the request again (not the
\* program's: what C1 and C3 rule out).
CatchRethrow(iv, cause) ==
    [iv EXCEPT !.pc = "rejected", !.log = "error", !.cause = cause]

CatchRetry(iv, cause) ==
    IF iv.requests < 2
    THEN [iv EXCEPT !.pc = "awaitFetch", !.requests = @ + 1]
    ELSE [iv EXCEPT !.pc = "fulfilled", !.value = Null, !.log = "error",
                    !.cause = cause]

\* catch (error) { console.error(...); return null; }
Catch(iv, cause) ==
    [iv EXCEPT !.pc = "fulfilled", !.value = Null, !.log = "error",
               !.cause = cause]

\* await fetch(...) settles with r; if (!response.ok) throw ...
OnResponse(iv, r) ==
    IF r.kind = "reject" THEN Catch(iv, "network")
    ELSE IF ~r.ok THEN Catch(iv, "status")
    ELSE [iv EXCEPT !.pc = "awaitJson"]

\* await response.json() settles with the body p; the path is then read one
\* property at a time: reading a property of null or undefined throws.
OnJson(iv, p) ==
    IF p.shape = "unparsable" THEN Catch(iv, "parse")
    ELSE IF p.shape = "jsonNull" THEN Catch(iv, "type-error")
    ELSE IF p.shape \in {"noData", "noUser"}
    THEN [iv EXCEPT !.pc = "fulfilled", !.value = Null, !.log = "warn",
                    !.cause = "not-found"]
    ELSE IF p.shape = "noCollection" THEN Catch(iv, "type-error")
    ELSE IF p.shape = "noCalendar"
    THEN [iv EXCEPT !.pc = "fulfilled", !.value = Undef]
    ELSE [iv EXCEPT !.pc = "fulfilled", !.value = p.calendar]

Settled(iv) == iv.pc \in {"fulfilled", "rejected"}

\* A direct call fetchGitHubContributions(username, token).
FetchCall ==
    /\ inv = <<>>
    /\ aggPc = "idle"
    /\ \E u \in Usernames, tk \in TokenArgs :
          LET iv == Begin(u, tk) IN
          /\ inv' = <<iv>>
          /\ wire' = wire \o Issued(iv)
    /\ UNCHANGED <<envPersonal, envGeneric, calls>>
    /\ UNCHANGED aggVars
    /\ UNCHANGED winVars
    /\ UNCHANGED idemVars
    /\ UNCHANGED renderVars

\* The fetch() of invocation i settles.
FetchSettles(i) ==
    /\ inv[i].pc = "awaitFetch"
    /\ \E r \in Responses :
          inv' = [inv EXCEPT ![i] = OnResponse([@ EXCEPT !.response = r], r)]
    /\ UNCHANGED <<envPersonal, envGeneric, wire, calls>>
    /\ UNCHANGED aggVars
    /\ UNCHANGED winVars
    /\ UNCHANGED idemVars
    /\ UNCHANGED renderVars

\* The response.json() of invocation i settles.
JsonSettles(i) ==
    /\ inv[i].pc = "awaitJson"
    /\ \E p \in Payloads :
          inv' = [inv EXCEPT ![i] = OnJson([@ EXCEPT !.payload = p], p)]
    /\ UNCHANGED <<envPersonal, envGeneric, wire, calls>>
    /\ UNCHANGED aggVars
    /\ UNCHANGED winVars
    /\ UNCHANGED idemVars
    /\ UNCHANGED renderVars

---------------------------------------------------------------------------
(* aggregateContributions *)

\* The account lists the model calls it with; the same username may appear
\* more than once.  Each token is passed or not.
AccountLists ==
    UNION {[1..k -> [username : Usernames, token : {Undef, Str("tok_arg")}]] :
           k \in 0..MaxAccounts}

\* What Promise.allSettled reports for an invocation that has settled.
SettledResult(iv) ==
    IF iv.pc = "fulfilled"
    THEN [status |-> "fulfilled", value |-> iv.value]
    ELSE [status |-> "rejected", value |-> Undef]

\* Results collected in the order the fetches completed (not the program's:
\* what C16 rules out).
ResultsInCompletionOrder(ivs) ==
    [i \in DOMAIN ivs |-> SettledResult(ivs[order[i]])]

\* The array Promise.allSettled resolves with: the result of promise i at
\* index i, whenever it settled.
Results(ivs) == [i \in DOMAIN ivs |-> SettledResult(ivs[i])]

\* A join that resolves only when every promise fulfilled with a calendar
\* (not the program's: what C17 rules out).
AllSucceeded(ivs) ==
    \A i \in DOMAIN ivs : ivs[i].pc = "fulfilled" /\ Truthy(ivs[i].value)

\* A join that resolves with the first promise to settle (not the program's:
\* what C7 rules out).
FirstSettled(ivs) ==
    ivs = <<>> \/ \E i \in DOMAIN ivs : Settled(ivs[i])

\* Promise.allSettled(...) resolves once every promise has settled.
AllSettled(ivs) == \A i \in DOMAIN ivs : Settled(ivs[i])

\* byAccount[username] = count
Put(m, key, val) ==
    [x \in DOMAIN m \cup {key} |-> IF x = key THEN val ELSE m[x]]

\* One turn of results.forEach((result, index) => ...).
EachResult(acc, result, username) ==
    IF result.status = "fulfilled" /\ Truthy(result.value)
    THEN LET count == result.value.totalContributions IN
         [totalContributions |-> JsAdd(acc.totalContributions, count),
          byAccount |-> Put(acc.byAccount, username, count)]
    ELSE [acc EXCEPT !.byAccount = Put(@, username, Num(0))]

EmptyMap == [u \in {} |-> Undef]

\* let totalContributions = 0; const byAccount = {}; results.forEach(...)
RECURSIVE ForEach(_, _, _, _)
ForEach(acc, results, accs, index) ==
    IF index > Len(results) THEN acc
    ELSE ForEach(EachResult(acc, results[index], accs[index].username),
                 results, accs, index + 1)

\* A reduction whose accumulators outlive the call (not the program's: what
\* C12 rules out).
ReduceCarry(results, accs) == ForEach(aggResult, results, accs, 1)

\* A reduction seeded from the first result, so that an empty list has no
\* total (not the program's: what C13 rules out).
ReduceNoSeed(results, accs) ==
    IF results = <<>>
    THEN [totalContributions |-> Undef, byAccount |-> EmptyMap]
    ELSE ForEach([totalContributions |-> Num(0), byAccount |-> EmptyMap],
                 results, accs, 1)

Reduce(results, accs) ==
    ForEach([totalContributions |-> Num(0), byAccount |-> EmptyMap],
            results, accs, 1)

\* A fan-out that awaits each fetch before it starts the next, so that only
\* the first request is out when the first response arrives (not the
\* program's: what C15 rules out).
IssuedFirst(ivs) ==
    IF ivs = <<>> THEN <<>> ELSE Issued(Head(ivs))

\* aggregateContributions(accs) up to its await: accounts.map calls the
\* Fetcher for every account in turn, each call running up to its own await.
RECURSIVE IssuedAll(_)
IssuedAll(ivs) ==
    IF ivs = <<>> THEN <<>> ELSE Issued(Head(ivs)) \o IssuedAll(Tail(ivs))

AggregateStart(accs) ==
    LET ivs == [i \in 1..Len(accs) |->
                   Begin(accs[i].username, accs[i].token)] IN
    /\ accounts' = accs
    /\ inv' = ivs
    /\ wire' = wire \o IssuedAll(ivs)
    /\ aggPc' = "awaiting"
    /\ calls' = calls + 1
    /\ UNCHANGED <<envPersonal, envGeneric, aggResult>>

AggregateCall ==
    /\ aggPc = "idle"
    /\ inv = <<>>
    /\ \E accs \in AccountLists : AggregateStart(accs)
    /\ UNCHANGED winVars
    /\ UNCHANGED idemVars
    /\ UNCHANGED renderVars

\* The await of Promise.allSettled resumes; the results are reduced and
\* returned.
AggregateResolve ==
    /\ aggPc = "awaiting"
    /\ AllSettled(inv)
    /\ aggResult' = Reduce(Results(inv), accounts)
    /\ aggPc' = "resolved"
    /\ UNCHANGED <<accounts, calls>>
    /\ UNCHANGED fetchVars
    /\ UNCHANGED winVars
    /\ UNCHANGED idemVars
    /\ UNCHANGED renderVars

\* A second call aggregateContributions(accounts) with the same list, right
\* after the first has returned.
AggregateAgain ==
    /\ aggPc = "resolved"
    /\ calls = 1
    /\ prevResult' = aggResult
    /\ AggregateStart(accounts)
    /\ UNCHANGED remote
    /\ UNCHANGED winVars
    /\ UNCHANGED renderVars

\* An unchanged remote source: the fetch() of invocation i settles as the
\* same request settled before, if it was made before.
FixedFetchSettles(i) ==
    /\ inv[i].pc = "awaitFetch"
    /\ LET key == Request(inv[i].username, inv[i].githubToken) IN
       \E r \in Responses :
          /\ key \in DOMAIN remote => r = remote[key].response
          /\ remote' = IF key \in DOMAIN remote THEN remote
                        ELSE Put(remote, key,
                                 [response |-> r, payload |-> NoPayload])
          /\ inv' = [inv EXCEPT ![i] = OnResponse([@ EXCEPT !.response = r], r)]
    /\ UNCHANGED <<envPersonal, envGeneric, wire, calls, prevResult>>
    /\ UNCHANGED aggVars
    /\ UNCHANGED winVars
    /\ UNCHANGED renderVars

\* An unchanged remote source: the response.json() of invocation i settles
\* with the body the same request had before, if it had one.
FixedJsonSettles(i) ==
    /\ inv[i].pc = "awaitJson"
    /\ LET key == Request(inv[i].username, inv[i].githubToken) IN
       \E p \in Payloads :
          /\ remote[key].payload # NoPayload => p = remote[key].payload
          /\ remote' = [remote EXCEPT ![key].payload = p]
          /\ inv' = [inv EXCEPT ![i] = OnJson([@ EXCEPT !.payload = p], p)]
    /\ UNCHANGED <<envPersonal, envGeneric, wire, calls, prevResult>>
    /\ UNCHANGED aggVars
    /\ UNCHANGED winVars
    /\ UNCHANGED renderVars

---------------------------------------------------------------------------
(* getRecentContributions *)

\* Array.prototype.flatMap(week => week.contributionDays)
RECURSIVE FlatMapDays(_)
FlatMapDays(weeks) ==
    IF weeks = <<>> THEN <<>>
    ELSE Head(weeks).contributionDays \o FlatMapDays(Tail(weeks))

\* Array.prototype.slice(start): a negative start counts from the end, and
\* the start is clamped to the array.
Max(a, b) == IF a >= b THEN a ELSE b
Min(a, b) == IF a <= b THEN a ELSE b

JsSlice(arr, start) ==
    LET len == Len(arr)
        k == IF start < 0 THEN Max(len + start, 0) ELSE Min(start, len)
    IN SubSeq(arr, k + 1, len)

\* days: number = 365
DefaultDays == 365

getRecentContributions(calendar, days) ==
    LET n == IF days = Undef THEN DefaultDays ELSE days.v
        allDays == FlatMapDays(calendar.weeks)
    IN JsSlice(allDays, -n)

\* The day counts the model passes: none (the default applies), 0 up to one
\* more than the longest short calendar, and the counts the callers pass
\* (90 for three months, 365 for the last year).
DayCounts ==
    {Undef} \cup {Num(n) : n \in 0..(DaysPerWeek * MaxWeeks + 1)}
    \cup {Num(90), Num(365)}

\* Calendars of full weeks that reach past three months, up to the 53 weeks
\* of a last-year query.
LongShapes == {[i \in 1..w |-> DaysPerWeek] : w \in {13, 14, 53}}

WindowCall ==
    /\ winPc = "idle"
    /\ \E lens \in WeekShapes \cup LongShapes, d \in DayCounts :
          LET cal == Calendar(Num(0), lens) IN
          /\ winCalendar' = cal
          /\ winDays' = d
          /\ winResult' = getRecentContributions(cal, d)
    /\ winPc' = "returned"
    /\ UNCHANGED fetchVars
    /\ UNCHANGED aggVars
    /\ UNCHANGED calls
    /\ UNCHANGED idemVars
    /\ UNCHANGED renderVars

---------------------------------------------------------------------------
(* GitHubContributions, the server component *)

\* days = 90
ComponentDefaultDays == 90

\* The days prop: not passed, or a count.
RenderDays == {Undef, Num(2)}

\* Math.ceil(n / d)
CeilDiv(n, d) == (n + d - 1) \div d

\* Nothing rendered yet.
NoView ==
    [totalContributions |-> Undef, byAccount |-> EmptyMap, recentDays |-> <<>>,
     weeks |-> 0]

\* GitHubContributions({accounts, days}) up to its first await: it calls
\* aggregateContributions(accounts).
RenderCall ==
    /\ renderPc = "idle"
    /\ aggPc = "idle"
    /\ inv = <<>>
    /\ \E accs \in AccountLists, d \in RenderDays :
          /\ AggregateStart(accs)
          /\ renderDays' = d
    /\ renderPc' = "aggregating"
    /\ UNCHANGED view
    /\ UNCHANGED winVars
    /\ UNCHANGED idemVars

\* The await of aggregateContributions resumes: accounts[0] is read (which
\* throws on an empty list) and the Fetcher is called for it once more.
RenderAfterAggregate ==
    /\ renderPc = "aggregating"
    /\ aggPc = "resolved"
    /\ IF accounts = <<>>
       THEN /\ renderPc' = "threw"
            /\ UNCHANGED <<inv, wire>>
       ELSE LET iv == Begin(accounts[1].username, accounts[1].token) IN
            /\ inv' = Append(inv, iv)
            /\ wire' = wire \o Issued(iv)
            /\ renderPc' = "fetchingPrimary"
    /\ UNCHANGED <<envPersonal, envGeneric, calls, renderDays, view>>
    /\ UNCHANGED aggVars
    /\ UNCHANGED winVars
    /\ UNCHANGED idemVars

\* A component that reuses what the aggregate fetched for accounts[0] (not
\* the program's: what C18 rules out).
PrimaryFromAggregate(ivs) == ivs[1]

\* const primaryCalendar = await fetchGitHubContributions(accounts[0]...):
\* the invocation awaited is the last one made.
PrimaryInvocation(ivs) == ivs[Len(ivs)]

\* A render without the error panel, absence shown as an empty grid (not the
\* program's: the render C14 describes).
RenderOutcomeNoPanel(primaryCalendar, aggregated, accs, days) ==
    [pc |-> "grid",
     view |-> [totalContributions |-> aggregated.totalContributions,
               byAccount |-> IF Len(accs) > 1 THEN aggregated.byAccount
                             ELSE EmptyMap,
               recentDays |-> <<>>, weeks |-> 0]]

\* The render from the primary calendar on: the error panel without one;
\* else the window, the number of grid columns and the JSX, in which
\* toLocaleString() is called on the total and, for more than one account,
\* on every count of the mapping.  Reading weeks.flatMap of a calendar
\* without weeks throws, and so does toLocaleString() of undefined.
RenderOutcome(primaryCalendar, aggregated, accs, days) ==
    IF ~Truthy(primaryCalendar) THEN [pc |-> "errorPanel", view |-> NoView]
    ELSE IF "weeks" \notin DOMAIN primaryCalendar
    THEN [pc |-> "threw", view |-> NoView]
    ELSE LET recentDays == getRecentContributions(primaryCalendar, days)
             weeks == CeilDiv(Len(recentDays), DaysPerWeek)
         IN
         IF /\ Len(accs) > 1
            /\ \E u \in DOMAIN aggregated.byAccount :
                   aggregated.byAccount[u].t = "undefined"
         THEN [pc |-> "threw", view |-> NoView]
         ELSE [pc |-> "grid",
               view |-> [totalContributions |-> aggregated.totalContributions,
                         byAccount |-> IF Len(accs) > 1
                                       THEN aggregated.byAccount
                                       ELSE EmptyMap,
                         recentDays |-> recentDays, weeks |-> weeks]]

\* The await of the last Fetcher call resumes and the component returns.
RenderFinish ==
    /\ renderPc = "fetchingPrimary"
    /\ Settled(PrimaryInvocation(inv))
    /\ LET primary == PrimaryInvocation(inv)
           days == IF renderDays = Undef THEN Num(ComponentDefaultDays)
                   ELSE renderDays
           out == IF primary.pc = "rejected"
                  THEN [pc |-> "threw", view |-> NoView]
                  ELSE RenderOutcome(primary.value, aggResult, accounts, days)
       IN /\ renderPc' = out.pc
          /\ view' = out.view
    /\ UNCHANGED <<calls, renderDays>>
    /\ UNCHANGED fetchVars
    /\ UNCHANGED aggVars
    /\ UNCHANGED winVars
    /\ UNCHANGED idemVars

---------------------------------------------------------------------------
(* Specifications *)

\* No request answered yet.
NoAnswers == [q \in {} |-> NoResponse]

Quiet ==
    /\ inv = <<>>
    /\ wire = <<>>
    /\ accounts = <<>>
    /\ aggPc = "idle"
    /\ aggResult = [totalContributions |-> Num(0), byAccount |-> EmptyMap]
    /\ winPc = "idle"
    /\ winCalendar = Undef
    /\ winDays = Undef
    /\ winResult = <<>>
    /\ calls = 0
    /\ prevResult = [totalContributions |-> Num(0), byAccount |-> EmptyMap]
    /\ remote = NoAnswers
    /\ renderPc = "idle"
    /\ renderDays = Undef
    /\ view = NoView
    /\ order = <<>>

\* Direct calls of fetchGitHubContributions under every configuration of the
\* two process-wide tokens.
FetchInit ==
    /\ envPersonal \in PersonalEnvs
    /\ envGeneric \in GenericEnvs
    /\ Quiet

FetchNext ==
    \/ FetchCall /\ UNCHANGED order
    \/ \E i \in DOMAIN inv : FetchSettles(i) /\ UNCHANGED order
    \/ \E i \in DOMAIN inv : JsonSettles(i) /\ UNCHANGED order

FetchSpec == FetchInit /\ [][FetchNext]_vars

\* One call of aggregateContributions; the generic token is unset, the
\* personal one set or not.
Init ==
    /\ envPersonal \in {Undef, Str("tok_personal")}
    /\ envGeneric = Undef
    /\ Quiet

Next ==
    \/ AggregateCall /\ UNCHANGED order
    \/ \E i \in DOMAIN inv : FetchSettles(i) /\ UNCHANGED order
    \/ \E i \in DOMAIN inv : JsonSettles(i) /\ UNCHANGED order
    \/ AggregateResolve /\ UNCHANGED order

Spec == Init /\ [][Next]_vars

\* Two calls of aggregateContributions in succession with the same list,
\* the remote source and the process-wide tokens (both unset) unchanged
\* between them.
IdemInit ==
    /\ envPersonal = Undef
    /\ envGeneric = Undef
    /\ Quiet

IdemNext ==
    \/ AggregateCall /\ UNCHANGED order
    \/ \E i \in DOMAIN inv : FixedFetchSettles(i) /\ UNCHANGED order
    \/ \E i \in DOMAIN inv : FixedJsonSettles(i) /\ UNCHANGED order
    \/ AggregateResolve /\ UNCHANGED order
    \/ AggregateAgain /\ UNCHANGED order

IdemSpec == IdemInit /\ [][IdemNext]_vars

\* The invocations that settle in a step, in input order.
NewlySettled(old, new) ==
    SelectSeq([i \in 1..Len(new) |-> i],
              LAMBDA i : Settled(new[i]) /\ (i > Len(old) \/ ~Settled(old[i])))

\* Neither GITHUB_TOKEN_PERSONAL nor GITHUB_TOKEN is set, so that an
\* account's credential is its token (FetchSpec covers the other
\* environments).
BareInit ==
    /\ envPersonal = Undef
    /\ envGeneric = Undef
    /\ Quiet

\* One call of aggregateContributions, with the order in which its fetches
\* completed recorded in order.
OrderNext ==
    \/ AggregateCall /\ order' = order \o NewlySettled(inv, inv')
    \/ \E i \in DOMAIN inv :
          FetchSettles(i) /\ order' = order \o NewlySettled(inv, inv')
    \/ \E i \in DOMAIN inv :
          JsonSettles(i) /\ order' = order \o NewlySettled(inv, inv')
    \/ AggregateResolve /\ UNCHANGED order

OrderSpec == BareInit /\ [][OrderNext]_vars

\* One call of aggregateContributions in which the continuation of
\* Promise.allSettled, once it can run, does run: the event loop does not
\* leave a ready continuation waiting for ever.  Nothing makes the remote
\* source answer.
LiveSpec ==
    /\ BareInit
    /\ [][Next]_vars
    /\ WF_vars(AggregateResolve /\ UNCHANGED order)

\* One render of GitHubContributions.
RenderNext ==
    \/ RenderCall /\ UNCHANGED order
    \/ \E i \in DOMAIN inv : FetchSettles(i) /\ UNCHANGED order
    \/ \E i \in DOMAIN inv : JsonSettles(i) /\ UNCHANGED order
    \/ AggregateResolve /\ UNCHANGED order
    \/ RenderAfterAggregate /\ UNCHANGED order
    \/ RenderFinish /\ UNCHANGED order

RenderSpec == BareInit /\ [][RenderNext]_vars

\* One call of getRecentContributions.
WindowInit ==
    /\ envPersonal = Undef
    /\ envGeneric = Undef
    /\ Quiet

WindowNext == WindowCall /\ UNCHANGED order

WindowSpec == WindowInit /\ [][WindowNext]_vars

---------------------------------------------------------------------------
(* Properties of fetchGitHubContributions, under FetchSpec *)

\* A configured credential: a non-empty string.
Present(x) == x.t = "string" /\ x.v # ""

NoCredential(iv) ==
    ~Present(iv.token) /\ ~Present(envPersonal) /\ ~Present(envGeneric)

\* What the remote call did to an invocation that makes it a failure: a
\* network exception, a non-success status, a body that is not JSON, a body
\* without data.user, or a body that breaks off before contributionsCollection.
RemoteFailure(iv) ==
    \/ iv.response.kind = "reject"
    \/ iv.response.kind = "response" /\ ~iv.response.ok
    \/ iv.payload.shape \in
         {"unparsable", "jsonNull", "noData", "noUser", "noCollection"}

C2_NoCredentialNoRequest ==
    \A i \in DOMAIN inv :
        NoCredential(inv[i]) =>
            /\ inv[i].pc = "fulfilled"
            /\ inv[i].value = Null
            /\ inv[i].requests = 0
            /\ wire = <<>>

\* C2 witness: a call with an empty token argument and no process-wide token
\* has returned.
C2_Witness ==
    \E i \in DOMAIN inv :
        /\ NoCredential(inv[i])
        /\ inv[i].token = Str("")
        /\ inv[i].pc = "fulfilled"

\* C3: an invocation issues one request once a credential resolves and never
\* a second one: a failed attempt ends the invocation with null, its request
\* count still 1, and the count never exceeds 1.
C3_AtMostOneRequest ==
    \A i \in DOMAIN inv :
        /\ inv[i].requests <= 1
        /\ Len(wire) <= 1
        /\ ~NoCredential(inv[i]) => inv[i].requests = 1 /\ Len(wire) = 1
        /\ RemoteFailure(inv[i]) =>
              inv[i].pc = "fulfilled" /\ inv[i].value = Null
                 /\ inv[i].requests = 1

\* C3 witness: the request of an invocation failed with a network exception
\* and the invocation ended, one request issued.
C3_Witness ==
    \E i \in DOMAIN inv :
        /\ inv[i].response.kind = "reject"
        /\ inv[i].pc = "fulfilled"
        /\ inv[i].requests = 1

\* The credential the resolution order names: the argument, else the personal
\* token, else the generic one.
FirstPresent(token, personal, generic) ==
    IF Present(token) THEN token
    ELSE IF Present(personal) THEN personal
    ELSE generic

\* C4: the bearer token sent is the token argument when it is present, else
\* GITHUB_TOKEN_PERSONAL when that is present, else GITHUB_TOKEN; with none
\* present nothing is sent.
C4_CredentialOrder ==
    \A i \in DOMAIN inv :
        IF NoCredential(inv[i]) THEN wire = <<>>
        ELSE wire = <<[username |-> inv[i].username,
                       authorization |->
                          Str("Bearer " \o
                              FirstPresent(inv[i].token, envPersonal,
                                           envGeneric).v)]>>

\* C4 witness: the argument and the personal token are both absent and the
\* request carries the generic token.
C4_Witness ==
    \E i \in DOMAIN inv :
        /\ ~Present(inv[i].token)
        /\ ~Present(envPersonal)
        /\ wire # <<>>
        /\ wire[1].authorization = Str("Bearer tok_generic")

---------------------------------------------------------------------------
(* Properties of aggregateContributions, under Spec *)

\* Invocation i returned a calendar.
ReturnedCalendar(iv) == iv.pc = "fulfilled" /\ iv.value.t = "object"

\* What position i contributes, by the rule of the specification: the
\* calendar's total, or 0 after absence or a fault.
Amount(iv) ==
    IF ReturnedCalendar(iv) THEN iv.value.totalContributions ELSE Num(0)

RECURSIVE SumAmounts(_)
SumAmounts(ivs) ==
    IF ivs = <<>> THEN Num(0)
    ELSE JsAdd(Amount(Head(ivs)), SumAmounts(Tail(ivs)))

RECURSIVE SumValues(_, _)
SumValues(m, keys) ==
    IF keys = {} THEN Num(0)
    ELSE LET key == CHOOSE x \in keys : TRUE IN
         JsAdd(m[key], SumValues(m, keys \ {key}))

\* C5: once aggregateContributions has resolved, the mapping holds under the
\* username of every position what that position's fetch contributes (its
\* calendar's total, or 0 after absence or a fault), and the combined total is
\* the sum of these contributions.
C5_PerPositionRecorded ==
    aggPc = "resolved" =>
        /\ \A i \in DOMAIN inv :
              /\ accounts[i].username \in DOMAIN aggResult.byAccount
              /\ aggResult.byAccount[accounts[i].username] = Amount(inv[i])
        /\ aggResult.totalContributions = SumAmounts(inv)

\* C6: once aggregateContributions has resolved, the combined total equals
\* the sum of the values of the per-account mapping, also when a username
\* appears more than once in the list.
C6_TotalIsSumOfMapping ==
    aggPc = "resolved" =>
        aggResult.totalContributions
            = SumValues(aggResult.byAccount, DOMAIN aggResult.byAccount)

\* C7: the result of aggregateContributions is produced only when every one
\* of the k invocations has settled: none is pending, none was skipped, and
\* every account has its entry, whatever failed.
C7_ResolvesAfterAllSettle ==
    aggPc = "resolved" =>
        /\ Len(inv) = Len(accounts)
        /\ \A i \in DOMAIN inv :
              /\ Settled(inv[i])
              /\ inv[i].username = accounts[i].username
              /\ accounts[i].username \in DOMAIN aggResult.byAccount

\* C7 witness: the first account's fetch failed with a network exception,
\* the second returned a calendar with a total, and the result was produced.
C7_Witness ==
    /\ aggPc = "resolved"
    /\ Len(inv) = 2
    /\ inv[1].response.kind = "reject"
    /\ ReturnedCalendar(inv[2])
    /\ aggResult.totalContributions = Num(120)

\* C8: the result of aggregateContributions is complete and integer-valued:
\* the combined total is an integer and the mapping holds an integer for
\* every username supplied, whatever each fetch returned.
C8_IntegerResult ==
    aggPc = "resolved" =>
        /\ IsInteger(aggResult.totalContributions)
        /\ \A i \in DOMAIN accounts :
              /\ accounts[i].username \in DOMAIN aggResult.byAccount
              /\ IsInteger(aggResult.byAccount[accounts[i].username])

---------------------------------------------------------------------------
(* Properties of getRecentContributions, under WindowSpec *)

\* The last n entries of a sequence, all of it when it is shorter.
LastN(arr, n) == SubSeq(arr, Len(arr) - Min(n, Len(arr)) + 1, Len(arr))

\* C9: for every calendar of D days and every day count N passed,
\* getRecentContributions returns min(N, D) entries: the last min(N, D)
\* entries of the flattened week sequence, in their order.
C9_TrailingWindow ==
    (winPc = "returned" /\ winDays # Undef) =>
        /\ Len(winResult) = Min(winDays.v, Len(FlatMapDays(winCalendar.weeks)))
        /\ winResult = LastN(FlatMapDays(winCalendar.weeks), winDays.v)

\* C10: getRecentContributions(calendar, 0) returns an empty sequence.
C10_ZeroDaysEmpty ==
    (winPc = "returned" /\ winDays = Num(0)) => winResult = <<>>

\* @param days - Number of days to retrieve (default: 90)
DocumentedDefaultDays == 90

\* C11: called without a day count, getRecentContributions uses the
\* documented default of 90: it returns the last min(90, D) days of a
\* calendar of D days.
C11_DefaultIs90 ==
    (winPc = "returned" /\ winDays = Undef) =>
        winResult = LastN(FlatMapDays(winCalendar.weeks), DocumentedDefaultDays)

\* C13: aggregateContributions called with an empty list issues no fetch and
\* returns the total 0 with an empty mapping.
C13_EmptyList ==
    (aggPc = "resolved" /\ accounts = <<>>) =>
        /\ inv = <<>>
        /\ wire = <<>>
        /\ aggResult.totalContributions = Num(0)
        /\ DOMAIN aggResult.byAccount = {}

\* C13 witness: the call with the empty list has returned.
C13_Witness ==
    /\ aggPc = "resolved"
    /\ accounts = <<>>
    /\ calls = 1

\* The requests the account list calls for: one for every account with a
\* credential, in input order.
RECURSIVE ExpectedRequests(_)
ExpectedRequests(accs) ==
    IF accs = <<>> THEN <<>>
    ELSE LET cred == FirstPresent(Head(accs).token, envPersonal, envGeneric)
             rest == ExpectedRequests(Tail(accs))
         IN IF Present(cred)
            THEN <<[username |-> Head(accs).username,
                    authorization |-> Str("Bearer " \o cred.v)]>> \o rest
            ELSE rest

\* C15: from the moment aggregateContributions awaits, and so before the
\* response of any fetch is consumed, the requests of all accounts with a
\* credential have been issued, in input order: every such fetch is in flight
\* without having waited for another account's response.
C15_AllIssuedBeforeAnyResponse ==
    /\ aggPc # "idle" => wire = ExpectedRequests(accounts)
    /\ (\E i \in DOMAIN inv : inv[i].response # NoResponse) =>
          /\ wire = ExpectedRequests(accounts)
          /\ \A j \in DOMAIN inv :
                Present(inv[j].githubToken) => inv[j].requests = 1

\* C15 witness: the fetches of two accounts are in flight at the same time,
\* their requests issued in input order and neither answered.
C15_Witness ==
    /\ aggPc = "awaiting"
    /\ Len(accounts) = 2
    /\ accounts[1].username = "B"
    /\ accounts[2].username = "A"
    /\ \A i \in DOMAIN inv :
          inv[i].pc = "awaitFetch" /\ inv[i].response = NoResponse
    /\ Len(wire) = 2
    /\ wire[1].username = "B"
    /\ wire[2].username = "A"

\* C18: a render over k >= 1 accounts makes k invocations inside
\* aggregateContributions and then exactly one more, for accounts[0] with its
\* token, begun only after aggregateContributions has resolved; the error
\* panel is shown only when this last invocation returned nothing and the
\* grid only when it returned a calendar, whatever the aggregate recorded.
C18_ExtraPrimaryFetch ==
    Len(accounts) >= 1 =>
        /\ Len(inv) \in {Len(accounts), Len(accounts) + 1}
        /\ Len(wire) <= Len(accounts) + 1
        /\ Len(inv) = Len(accounts) + 1 <=>
              renderPc \in {"fetchingPrimary", "errorPanel", "grid", "threw"}
        /\ Len(inv) = Len(accounts) + 1 =>
              /\ aggPc = "resolved"
              /\ inv[Len(inv)].username = accounts[1].username
              /\ inv[Len(inv)].token = accounts[1].token
        /\ renderPc = "errorPanel" => ~ReturnedCalendar(inv[Len(accounts) + 1])
        /\ renderPc = "grid" => ReturnedCalendar(inv[Len(accounts) + 1])

\* C18 witness: the aggregate recorded 120 for accounts[0], whose last fetch
\* then failed: the render shows the error panel.
C18_Witness ==
    /\ renderPc = "errorPanel"
    /\ Len(accounts) = 1
    /\ Len(inv) = 2
    /\ aggResult.byAccount[accounts[1].username] = Num(120)
    /\ aggResult.totalContributions = Num(120)
    /\ inv[2].value = Null

---------------------------------------------------------------------------
(* Properties of the completion order, under OrderSpec *)

\* What invocation iv returns by its own credential and its own response
\* alone.
OwnOutcome(iv) ==
    IF ~Present(iv.githubToken) \/ RemoteFailure(iv) THEN Null
    ELSE iv.payload.calendar

\* The last position of the account list that names username u.
LastPosition(accs, u) ==
    CHOOSE i \in DOMAIN accs :
        /\ accs[i].username = u
        /\ \A j \in DOMAIN accs : accs[j].username = u => j <= i

\* C16: once aggregateContributions has resolved, the combined total and the
\* per-account mapping are what the account list and the outcome of each
\* position determine, in whatever order the fetches completed, and the
\* outcome of each fetch is what its own credential and its own response
\* determine.
C16_CompletionOrderIrrelevant ==
    aggPc = "resolved" =>
        /\ aggResult.totalContributions = SumAmounts(inv)
        /\ DOMAIN aggResult.byAccount =
              {accounts[i].username : i \in DOMAIN accounts}
        /\ \A u \in DOMAIN aggResult.byAccount :
              aggResult.byAccount[u] = Amount(inv[LastPosition(accounts, u)])
        /\ \A i \in DOMAIN inv : inv[i].value = OwnOutcome(inv[i])

\* C16 witness: of two accounts the second completed first, and both
\* calendars are in the result.
C16_Witness ==
    /\ aggPc = "resolved"
    /\ order = <<2, 1>>
    /\ accounts[1].username = "A"
    /\ accounts[2].username = "B"
    /\ aggResult.byAccount["A"] = Num(5)
    /\ aggResult.byAccount["B"] = Num(120)
    /\ aggResult.totalContributions = Num(125)

---------------------------------------------------------------------------
(* Properties of termination, under LiveSpec *)

\* Every fetch of the call has returned.
EveryFetchReturned ==
    \A i \in DOMAIN inv : inv[i].pc \in {"fulfilled", "rejected"}

\* C17: aggregateContributions resolves exactly when all its fetches settle:
\* if in a call every fetch eventually returns, the call eventually produces
\* its result; and while any fetch has not returned there is no result, so a
\* remote call that never completes leaves the call without a result for
\* ever.
C17_ResolvesWhenAllSettle ==
    /\ [](aggPc = "awaiting" => <>EveryFetchReturned)
          => ((aggPc = "awaiting") ~> (aggPc = "resolved"))
    /\ [](~EveryFetchReturned => aggPc # "resolved")

\* C17 witness: the call has produced its result after the remote calls of
\* two accounts completed, one with a network exception.
C17_Witness ==
    /\ aggPc = "resolved"
    /\ Len(inv) = 2
    /\ inv[1].response.kind = "reject"
    /\ inv[2].response.kind = "response"
    /\ inv[2].payload.shape = "calendar"

---------------------------------------------------------------------------
(* Properties of repeated calls, under IdemSpec *)

\* C12: two calls of aggregateContributions in succession with the same
\* account list, the same answer of the remote source to each request and
\* the same credentials return the same combined total and the same
\* per-account mapping, and the second call issues the requests the first
\* issued.
C12_Idempotent ==
    (calls = 2 /\ aggPc = "resolved") =>
        /\ aggResult = prevResult
        /\ Len(wire) % 2 = 0
        /\ \A j \in 1..(Len(wire) \div 2) :
              wire[j] = wire[j + Len(wire) \div 2]

\* C12 witness: the second of two calls has returned a non-zero total for
\* two accounts, one of which failed.
C12_Witness ==
    /\ calls = 2
    /\ aggPc = "resolved"
    /\ Len(inv) = 2
    /\ inv[1].value = Null
    /\ aggResult.totalContributions = Num(120)

---------------------------------------------------------------------------
(* Properties of GitHubContributions, under RenderSpec *)

\* The render has returned or thrown.
RenderDone == renderPc \in {"errorPanel", "grid", "threw"}

\* The invocations made inside aggregateContributions.
FanOut == SubSeq(inv, 1, Len(accounts))

\* A calendar the render cannot draw: no weeks, or no totalContributions.
Undrawable(cal) ==
    \/ "weeks" \notin DOMAIN cal
    \/ cal.totalContributions.t # "number"

\* C14 as stated: in a render over a non-empty account list the render
\* completes and shows the aggregated totals with each failed account counted
\* as zero, and never shows an error state distinct from zero/empty data.
C14_NoErrorState ==
    (Len(accounts) >= 1 /\ RenderDone) =>
        /\ renderPc = "grid"
        /\ view.totalContributions = SumAmounts(FanOut)

\* C14, amended: in a render over a non-empty account list the error panel
\* is shown exactly when the final fetch of accounts[0] returned no calendar
\* (null or undefined); a
\* grid shows the aggregate's total, which is the sum of the totals of the
\* calendars the fan-out returned, every failed fetch counting zero; and the
\* render throws only when some fetch returned a calendar without weeks or
\* without totalContributions, never because a fetch failed.
C14_PanelOnPrimaryAbsence ==
    (Len(accounts) >= 1 /\ RenderDone) =>
        /\ renderPc = "errorPanel" <=>
              inv[Len(accounts) + 1].value.t \in {"null", "undefined"}
        /\ renderPc = "grid" =>
              view.totalContributions =
                  SumAmounts(SelectSeq(FanOut, ReturnedCalendar))
        /\ renderPc = "threw" =>
              \E i \in DOMAIN inv :
                  ReturnedCalendar(inv[i]) /\ Undrawable(inv[i].value)

\* C14 witness: of two accounts the first failed inside the fan-out while the
\* second returned 120, and after the final fetch of accounts[0] failed too
\* the render shows the error panel.
C14_Witness ==
    /\ renderPc = "errorPanel"
    /\ Len(accounts) = 2
    /\ inv[1].value = Null
    /\ RemoteFailure(inv[1])
    /\ ReturnedCalendar(inv[2])
    /\ aggResult.totalContributions = Num(120)
    /\ RemoteFailure(inv[3])

====
